---- MODULE Spec2Model ----
(***************************************************************************)
(* Model of the face-emotion service (src/main.py): the /analyze-emotion   *)
(* handler, its helpers (validate_image_format, save_uploaded_file,        *)
(* cleanup_temp_file, detect_emotion), the temporary directory they share  *)
(* and the external DeepFace backend, which is an opaque collaborator and  *)
(* therefore a nondeterministic choice over its possible outcomes.         *)
(*                                                                         *)
(* Strings the code inspects are sequences: a filename is a sequence of    *)
(* one-character strings, an exception message a sequence of words.        *)
(* A confidence is an integer number of tenths of a percent (923 = 92.3).  *)
(***************************************************************************)
EXTENDS Integers, Sequences, FiniteSets, TLC

VARIABLES pc, upload, tmp_file, temp_file_path, response, raised, backend,
          calls, fs, fn_arg, fn_res

vars == <<pc, upload, tmp_file, temp_file_path, response, raised, backend,
          calls, fs, fn_arg, fn_res>>

reqVars == <<pc, upload, tmp_file, temp_file_path, response, raised, backend,
             calls, fs>>

fnVars == <<fn_arg, fn_res>>

(***************************************************************************)
(* Bounds of the model.                                                    *)
(***************************************************************************)
\* requests in flight at the same time
NumReqs == 2
\* names the temporary directory can hand out
NumNames == 2
\* longest stem put in front of an extension in the enumerated filenames
MaxStem == 2
\* most labels in an enumerated EmotionScores mapping
MaxLabels == 3

(***************************************************************************)
(* Strings.                                                                *)
(***************************************************************************)
UpperCase == <<"A", "B", "C", "D", "E", "F", "G", "H", "I", "J", "K", "L", "M",
               "N", "O", "P", "Q", "R", "S", "T", "U", "V", "W", "X", "Y", "Z">>

LowerCase == <<"a", "b", "c", "d", "e", "f", "g", "h", "i", "j", "k", "l", "m",
               "n", "o", "p", "q", "r", "s", "t", "u", "v", "w", "x", "y", "z">>

\* str.lower() on one character
LowerChar(c) ==
    IF \E i \in 1..Len(UpperCase) : UpperCase[i] = c
    THEN LowerCase[CHOOSE i \in 1..Len(UpperCase) : UpperCase[i] = c]
    ELSE c

\* str.lower()
Lower(s) == [i \in 1..Len(s) |-> LowerChar(s[i])]

\* str.rfind(c), 1-based; 0 when c does not occur
RFind(s, c) ==
    IF \E i \in 1..Len(s) : s[i] = c
    THEN CHOOSE i \in 1..Len(s) : s[i] = c /\ \A j \in (i+1)..Len(s) : s[j] # c
    ELSE 0

\* "needle in s" for sequences: needle occurs as a contiguous run of s
Contains(s, needle) ==
    \E i \in 0..(Len(s) - Len(needle)) :
        \A k \in 1..Len(needle) : s[i + k] = needle[k]

\* the filename of an upload that carries none (UploadFile.filename is None)
NoneName == <<"<None>">>

\* PurePath.name: the last component of the path, where empty components
\* (doubled or trailing slashes) and "." components are dropped by the parser
RECURSIVE PathName(_)
PathName(f) ==
    IF f = <<>> THEN <<>>
    ELSE LET slash == RFind(f, "/")
             last  == SubSeq(f, slash + 1, Len(f))
         IN  IF last = <<>> \/ last = <<".">>
             THEN IF slash = 0 THEN <<>> ELSE PathName(SubSeq(f, 1, slash - 1))
             ELSE last

\* PurePath.suffix: name[i:] where i = name.rfind('.') if 0 < i < len(name) - 1
PathSuffix(f) ==
    LET name == PathName(f)
        i    == RFind(name, ".")
    IN  IF 1 < i /\ i < Len(name) THEN SubSeq(name, i, Len(name)) ELSE <<>>

SUPPORTED_FORMATS ==
    { <<".", "j", "p", "g">>, <<".", "j", "p", "e", "g">>, <<".", "p", "n", "g">>,
      <<".", "b", "m", "p">>, <<".", "t", "i", "f", "f">>, <<".", "w", "e", "b", "p">> }

\* a variant that accepts every filename that has a suffix
validate_any_suffix(filename) == PathSuffix(filename) # <<>>

\* a variant that compares the suffix as written, without lower-casing it
validate_case_sensitive(filename) == PathSuffix(filename) \in SUPPORTED_FORMATS

validate_image_format(filename) == Lower(PathSuffix(filename)) \in SUPPORTED_FORMATS

(***************************************************************************)
(* Level normalisation and the dominant emotion (detect_emotion).          *)
(***************************************************************************)
\* a variant that rounds ties upwards
PyRoundHalfUp(n, d) == (2 * n + d) \div (2 * d)

\* Python's round() of the quotient n/d: to nearest, ties to even
PyRound(n, d) ==
    LET q == n \div d
        r == n % d
    IN  IF 2 * r > d THEN q + 1
        ELSE IF 2 * r < d THEN q
        ELSE IF q % 2 = 0 THEN q ELSE q + 1

Max(a, b) == IF a >= b THEN a ELSE b

Min(a, b) == IF a <= b THEN a ELSE b

\* a variant that truncates the quotient instead of rounding it
LevelTruncating(confidence) == Max(1, Min(confidence \div 100, 10))

\* level = int(round(confidence / 10)); level = max(1, min(level, 10))
\* with confidence in tenths of a percent, confidence / 10 is the quotient /100
Level(confidence) == Max(1, Min(PyRound(confidence, 100), 10))

\* max(emotions, key=emotions.get) scans the mapping in iteration order and
\* keeps the first entry whose value is strictly greater than the best so far
RECURSIVE MaxScan(_, _, _)
MaxScan(emotions, i, best) ==
    IF i > Len(emotions) THEN best
    ELSE MaxScan(emotions, i + 1,
                 IF emotions[i].conf > emotions[best].conf THEN i ELSE best)

\* a variant in which a later entry with an equal value replaces the best
RECURSIVE MaxScanLast(_, _, _)
MaxScanLast(emotions, i, best) ==
    IF i > Len(emotions) THEN best
    ELSE MaxScanLast(emotions, i + 1,
                     IF emotions[i].conf >= emotions[best].conf THEN i ELSE best)

DominantLast(emotions) == emotions[MaxScanLast(emotions, 2, 1)].label

\* the key returned by max(emotions, key=emotions.get), emotions not empty
Dominant(emotions) == emotions[MaxScan(emotions, 2, 1)].label

\* emotions[dominant_emotion]
ScoreOf(emotions, label) ==
    emotions[CHOOSE i \in 1..Len(emotions) : emotions[i].label = label].conf

(***************************************************************************)
(* Exceptions, the backend's outcomes and detect_emotion.                  *)
(***************************************************************************)
NoExc == [type |-> "None", msg |-> <<>>]

Exc(type, msg) == [type |-> type, msg |-> msg]

\* the text detect_emotion looks for in a ValueError's message
NoFaceText == <<"Face", "could", "not", "be", "detected">>

\* exception classes that derive from ValueError / from Exception
IsValueError(e) == e.type = "ValueError"

\* a variant of "except Exception" that catches ValueError alone
IsOnlyValueError(e) == e.type = "ValueError"

IsException(e) == e.type \in {"ValueError", "IndexError", "KeyError", "TypeError",
                              "OSError", "RuntimeError"}

\* what DeepFace.analyze did: it raised (type, msg), or it returned a single
\* result object (is_list = FALSE, one item) or a list of result objects;
\* a result object may lack its 'emotion' entry
BackendRaise(type, msg) ==
    [raises |-> TRUE, type |-> type, msg |-> msg, is_list |-> FALSE, items |-> <<>>]

BackendReturn(is_list, items) ==
    [raises |-> FALSE, type |-> "None", msg |-> <<>>, is_list |-> is_list,
     items |-> items]

ResultObj(emotions) == [has_emotion |-> TRUE, emotion |-> emotions]

ResultObjNoEmotion == [has_emotion |-> FALSE, emotion |-> <<>>]

NoBackend == [raises |-> FALSE, type |-> "NotCalled", msg |-> <<>>,
              is_list |-> FALSE, items |-> <<>>]

\* a variant that takes the last element of a list result
DetectBodyLastItem(out) ==
    LET fail(e) == [exc |-> e, emotion |-> "", level |-> 0]
    IN  IF out.raises THEN fail(Exc(out.type, out.msg))
        ELSE IF out.is_list /\ out.items = <<>>
             THEN fail(Exc("IndexError", <<"list", "index", "out", "of", "range">>))
        ELSE IF ~ out.items[Len(out.items)].has_emotion
             THEN fail(Exc("KeyError", <<"'emotion'">>))
        ELSE LET emotions == out.items[Len(out.items)].emotion
             IN  IF emotions = <<>>
                 THEN fail(Exc("ValueError",
                               <<"max()", "arg", "is", "an", "empty", "sequence">>))
                 ELSE LET dominant_emotion == Dominant(emotions)
                          confidence == ScoreOf(emotions, dominant_emotion)
                      IN  [exc |-> NoExc, emotion |-> dominant_emotion,
                           level |-> Level(confidence)]

\* the try body of detect_emotion: the exception it raises, or the pair it returns
DetectBody(out) ==
    LET fail(e) == [exc |-> e, emotion |-> "", level |-> 0]
    IN  IF out.raises THEN fail(Exc(out.type, out.msg))
        ELSE IF out.is_list /\ out.items = <<>>
             THEN fail(Exc("IndexError", <<"list", "index", "out", "of", "range">>))
        ELSE IF ~ out.items[1].has_emotion
             THEN fail(Exc("KeyError", <<"'emotion'">>))
        ELSE LET emotions == out.items[1].emotion
             IN  IF emotions = <<>>
                 THEN fail(Exc("ValueError",
                               <<"max()", "arg", "is", "an", "empty", "sequence">>))
                 ELSE LET dominant_emotion == Dominant(emotions)
                          confidence == ScoreOf(emotions, dominant_emotion)
                      IN  [exc |-> NoExc, emotion |-> dominant_emotion,
                           level |-> Level(confidence)]

\* responses: a JSONResponse (status 200) or an HTTPException (status, detail);
\* kind names the raise site of the HTTPException in the error taxonomy
NoResponse == [status |-> 0, emotion |-> "", level |-> 0, detail |-> <<>>,
               kind |-> "Pending"]

JSONResponse(emotion, level) ==
    [status |-> 200, emotion |-> emotion, level |-> level, detail |-> <<>>,
     kind |-> "Responded"]

HTTPException(status, detail, kind) ==
    [status |-> status, emotion |-> "", level |-> 0, detail |-> detail,
     kind |-> kind]

UnsupportedDetail ==
    <<"Unsupported image format. Supported formats: .jpg, .jpeg, .png, .bmp, .tiff, .webp">>

SaveFailedDetail == <<"Failed to save uploaded file">>

NoFaceDetail == <<"No face detected in the image">>

AnalysisErrorDetail == <<"Internal error during emotion analysis">>

ServerErrorDetail == <<"Internal server error">>

\* a variant of the except clauses that passes every message through
DetectHandlersLeaky(e) ==
    IF IsValueError(e)
    THEN IF Contains(e.msg, NoFaceText)
         THEN HTTPException(400, NoFaceDetail, "NoFaceDetected")
         ELSE HTTPException(400, e.msg, "InvalidInput")
    ELSE HTTPException(500, e.msg, "BackendFailure")

\* a variant of the except clauses that does not look for the no-face text
DetectHandlersNoFaceBlind(e) ==
    IF IsValueError(e)
    THEN HTTPException(400, e.msg, "InvalidInput")
    ELSE HTTPException(500, AnalysisErrorDetail, "BackendFailure")

\* the except clauses of detect_emotion
DetectHandlers(e) ==
    IF IsValueError(e)
    THEN IF Contains(e.msg, NoFaceText)
         THEN HTTPException(400, NoFaceDetail, "NoFaceDetected")
         ELSE HTTPException(400, e.msg, "InvalidInput")
    ELSE HTTPException(500, AnalysisErrorDetail, "BackendFailure")

\* detect_emotion: the pair it returns (status 0) or the HTTPException it raises
detect_emotion(out) ==
    LET body == DetectBody(out)
    IN  IF body.exc = NoExc
        THEN [raised |-> NoExc, emotion |-> body.emotion, level |-> body.level,
              http |-> NoResponse]
        ELSE [raised |-> body.exc, emotion |-> "", level |-> 0,
              http |-> DetectHandlers(body.exc)]

(***************************************************************************)
(* The temporary directory.                                                *)
(***************************************************************************)
Names == 1..NumNames

\* temp_file_path = None
None == 0

NoFile == [exists |-> FALSE, owner |-> 0, suffix |-> <<>>, data |-> "none",
           open |-> FALSE]

\* a variant of name generation without exclusive creation
AnyName(dir) == Names

\* mkstemp creates the file with O_EXCL: only a name not present can be created
FreeNames(dir) == { n \in Names : ~ dir[n].exists }

\* a variant of cleanup that lets the removal error out
cleanup_unguarded(dir, file_path, remove_ok) ==
    IF dir[file_path].exists
    THEN IF remove_ok
         THEN [dir |-> [dir EXCEPT ![file_path] = NoFile], propagated |-> NoExc]
         ELSE [dir |-> dir, propagated |-> Exc("OSError", <<"remove", "failed">>)]
    ELSE [dir |-> dir, propagated |-> NoExc]

\* cleanup_temp_file: the directory afterwards and the exception that leaves
\* the function; os.remove either removes the file or raises an OSError
cleanup_temp_file(dir, file_path, remove_ok) ==
    LET body == IF dir[file_path].exists
                THEN IF remove_ok
                     THEN [dir |-> [dir EXCEPT ![file_path] = NoFile], exc |-> NoExc]
                     ELSE [dir |-> dir, exc |-> Exc("OSError", <<"remove", "failed">>)]
                ELSE [dir |-> dir, exc |-> NoExc]
    IN  [dir |-> body.dir,
         propagated |-> IF IsException(body.exc) THEN NoExc ELSE body.exc]

(***************************************************************************)
(* Inputs of the requests.                                                 *)
(***************************************************************************)
Reqs == 1..NumReqs

PhotoJPG == <<"p", "h", "o", "t", "o", ".", "J", "P", "G">>

PhotoGif == <<"p", "h", "o", "t", "o", ".", "g", "i", "f">>

\* filenames of the uploads: accepted, unsupported, without suffix, missing
FileNames == { PhotoJPG, PhotoGif, <<"p", "h", "o", "t", "o">>, NoneName }

\* message of the OSError that NamedTemporaryFile raises
CreateFailedMsg == <<"No", "usable", "temporary", "directory", "found">>

\* messages of the OSError that reading or writing the upload raises
StorageMsgs == { <<"No", "space", "left", "on", "device">>, <<"Permission", "denied">> }

NoFaceMsg == NoFaceText \o <<"in", "numpy", "array.">>

CorruptMsg == <<"Input", "image", "must", "not", "be", "empty.">>

ModelMsg == <<"model", "weights", "could", "not", "be", "loaded">>

OomMsg == <<"out", "of", "memory">>

Score(label, conf) == [label |-> label, conf |-> conf]

HappyScores == << Score("happy", 923), Score("sad", 11), Score("neutral", 66) >>

TieScores == << Score("neutral", 500), Score("sad", 500) >>

\* what the backend may do with one image
BackendOutcomes ==
    { BackendRaise("ValueError", NoFaceMsg), BackendRaise("ValueError", CorruptMsg),
      BackendRaise("RuntimeError", ModelMsg), BackendRaise("RuntimeError", OomMsg),
      BackendReturn(FALSE, << ResultObj(HappyScores) >>),
      BackendReturn(TRUE, << ResultObj(TieScores) >>),
      BackendReturn(TRUE, <<>>),
      BackendReturn(FALSE, << ResultObjNoEmotion >>),
      BackendReturn(TRUE, << ResultObj(<<>>) >>) }

\* per request: how often each helper was called, the path cleanup was called
\* with, and whose file the backend read and the cleanup removed
NoCalls == [save |-> 0, detect |-> 0, cleanup |-> 0, cleaned |-> None,
            read |-> 0, removed |-> 0]

IdleArg == [fn |-> "idle", filename |-> <<>>, confidence |-> 0, emotions |-> <<>>,
            is_list |-> FALSE, rest |-> <<>>,
            dir |-> [n \in Names |-> NoFile], path |-> 1, remove_ok |-> <<TRUE, TRUE>>]

NoCleanup == [dir |-> [n \in Names |-> NoFile], propagated |-> NoExc]

NoDetect == [raised |-> NoExc, emotion |-> "", level |-> 0, http |-> NoResponse]

IdleRes == [done |-> FALSE, valid |-> FALSE, level |-> 0, label |-> "",
            http |-> NoResponse, single |-> NoDetect, listed |-> NoDetect,
            first |-> NoCleanup, second |-> NoCleanup]

(***************************************************************************)
(* The request handler analyze_emotion, one action per step that touches   *)
(* the temporary directory or the backend.                                 *)
(***************************************************************************)
Init ==
    /\ pc = [r \in Reqs |-> "received"]
    /\ upload = [r \in Reqs |-> <<>>]
    /\ tmp_file = [r \in Reqs |-> None]
    /\ temp_file_path = [r \in Reqs |-> None]
    /\ response = [r \in Reqs |-> NoResponse]
    /\ raised = [r \in Reqs |-> NoExc]
    /\ backend = [r \in Reqs |-> NoBackend]
    /\ calls = [r \in Reqs |-> NoCalls]
    /\ fs = [n \in Names |-> NoFile]
    /\ fn_arg = IdleArg
    /\ fn_res = IdleRes

\* a variant that starts the request's work again after a server error
LeaveRetry(r, resp, exc) ==
    /\ response' = [response EXCEPT ![r] = resp]
    /\ raised' = [raised EXCEPT ![r] = exc]
    /\ pc' = [pc EXCEPT ![r] = IF resp.status = 500 THEN "validated" ELSE "finally"]

\* the request leaves the try block with an HTTPException or a response
Leave(r, resp, exc) ==
    /\ response' = [response EXCEPT ![r] = resp]
    /\ raised' = [raised EXCEPT ![r] = exc]
    /\ pc' = [pc EXCEPT ![r] = "finally"]

\* lines 99-103: the request arrives with its filename and is validated; a
\* missing filename makes Path() raise TypeError, caught by "except Exception"
Validate(r) ==
    /\ pc[r] = "received"
    /\ \E f \in FileNames :
        /\ upload' = [upload EXCEPT ![r] = f]
        /\ IF f = NoneName
           THEN Leave(r, HTTPException(500, ServerErrorDetail, "UnexpectedError"),
                      Exc("TypeError", <<"expected", "str,", "not", "NoneType">>))
           ELSE IF ~ validate_image_format(f)
           THEN Leave(r, HTTPException(400, UnsupportedDetail, "UnsupportedFormat"),
                      NoExc)
           ELSE /\ pc' = [pc EXCEPT ![r] = "validated"]
                /\ UNCHANGED <<response, raised>>
    /\ UNCHANGED <<tmp_file, temp_file_path, backend, calls, fs, fnVars>>

\* lines 104, 30-32: save_uploaded_file is entered and NamedTemporaryFile
\* creates an empty file under a fresh name, or raises
SaveCreate(r) ==
    /\ pc[r] = "validated"
    /\ calls' = [calls EXCEPT ![r].save = @ + 1]
    /\ \/ \E n \in FreeNames(fs) :
            /\ fs' = [fs EXCEPT ![n] = [exists |-> TRUE, owner |-> r,
                                        suffix |-> Lower(PathSuffix(upload[r])),
                                        data |-> "empty", open |-> TRUE]]
            /\ tmp_file' = [tmp_file EXCEPT ![r] = n]
            /\ pc' = [pc EXCEPT ![r] = "created"]
            /\ UNCHANGED <<response, raised>>
       \/ /\ Leave(r, HTTPException(500, SaveFailedDetail, "StorageError"),
                   Exc("OSError", CreateFailedMsg))
          /\ UNCHANGED <<fs, tmp_file>>
    /\ UNCHANGED <<upload, temp_file_path, backend, fnVars>>

\* a variant in which the path is handed on while the file is still open
WrittenLeftOpen(file) == [file EXCEPT !.data = "content"]

\* lines 34-37: tmp_file.write(content), and the with block closes the file
\* on the way out of "return tmp_file_path"
Written(file) == [file EXCEPT !.data = "content", !.open = FALSE]

\* lines 33-40: the upload is read and written and the file closed when the
\* with block is left; on an exception the file stays (delete=False) and the
\* handler's temp_file_path is never assigned
SaveWrite(r) ==
    /\ pc[r] = "created"
    /\ \/ /\ fs' = [fs EXCEPT ![tmp_file[r]] = Written(@)]
          /\ temp_file_path' = [temp_file_path EXCEPT ![r] = tmp_file[r]]
          /\ pc' = [pc EXCEPT ![r] = "stored"]
          /\ UNCHANGED <<response, raised>>
       \/ \E m \in StorageMsgs :
            /\ fs' = [fs EXCEPT ![tmp_file[r]].open = FALSE]
            /\ Leave(r, HTTPException(500, SaveFailedDetail, "StorageError"),
                     Exc("OSError", m))
            /\ UNCHANGED temp_file_path
    /\ UNCHANGED <<upload, tmp_file, backend, calls, fnVars>>

\* lines 105, 53-59: detect_emotion is entered and hands the stored file's
\* path to DeepFace.analyze, which runs until Detect
BackendCall(r) ==
    /\ pc[r] = "stored"
    /\ calls' = [calls EXCEPT ![r].detect = @ + 1,
                              ![r].read = fs[temp_file_path[r]].owner]
    /\ pc' = [pc EXCEPT ![r] = "analyzing"]
    /\ UNCHANGED <<upload, tmp_file, temp_file_path, response, raised, backend,
                   fs, fnVars>>

\* lines 105-109 and 60-80: the backend returns or raises, detect_emotion
\* finishes and the response is built, or its HTTPException is re-raised
\* unchanged
Detect(r) ==
    /\ pc[r] = "analyzing"
    /\ \E out \in BackendOutcomes :
        LET res == detect_emotion(out)
        IN  /\ backend' = [backend EXCEPT ![r] = out]
            /\ IF res.http = NoResponse
               THEN Leave(r, JSONResponse(res.emotion, res.level), NoExc)
               ELSE Leave(r, res.http, res.raised)
    /\ UNCHANGED <<upload, tmp_file, temp_file_path, calls, fs, fnVars>>

\* a variant of the finally block whose test never succeeds
NeverTruthy(path) == FALSE

\* the test of the finally block: "if temp_file_path:"
Truthy(path) == path # None


\* lines 115-117: the finally block, after which the response or the
\* HTTPException leaves the handler
Finally(r) ==
    /\ pc[r] = "finally"
    /\ IF Truthy(temp_file_path[r])
       THEN \E remove_ok \in BOOLEAN :
              LET path == temp_file_path[r]
                  res  == cleanup_temp_file(fs, path, remove_ok)
              IN  /\ fs' = res.dir
                  /\ calls' = [calls EXCEPT ![r].cleanup = @ + 1,
                                            ![r].cleaned = path,
                                            ![r].removed =
                                               IF res.dir[path] # fs[path]
                                               THEN fs[path].owner ELSE 0]
                  /\ IF res.propagated = NoExc
                     THEN UNCHANGED <<response, raised>>
                     ELSE /\ response' = [response EXCEPT ![r] =
                                 [status |-> 0, emotion |-> "", level |-> 0,
                                  detail |-> res.propagated.msg,
                                  kind |-> "Escaped"]]
                          /\ raised' = [raised EXCEPT ![r] = res.propagated]
       ELSE UNCHANGED <<fs, calls, response, raised>>
    /\ pc' = [pc EXCEPT ![r] = "done"]
    /\ UNCHANGED <<upload, tmp_file, temp_file_path, backend, fnVars>>

Next == \E r \in Reqs :
            \/ Validate(r)
            \/ SaveCreate(r)
            \/ SaveWrite(r)
            \/ BackendCall(r)
            \/ Detect(r)
            \/ Finally(r)

Spec == Init /\ [][Next]_vars

(***************************************************************************)
(* The helpers as functions of their arguments: each is applied once to    *)
(* an argument drawn from an enumerated set.                               *)
(***************************************************************************)
SeqsUpTo(S, n) == UNION { [1..k -> S] : k \in 0..n }

StemChars == {"a", ".", "/"}

\* endings that are, resemble or are not an accepted extension
ExtSamples ==
    { <<".", "j", "p", "g">>, <<".", "J", "P", "G">>, <<".", "J", "p", "g">>,
      <<".", "j", "p", "e", "g">>, <<".", "J", "P", "E", "G">>,
      <<".", "p", "n", "g">>, <<".", "P", "n", "G">>,
      <<".", "b", "m", "p">>, <<".", "B", "M", "P">>,
      <<".", "t", "i", "f", "f">>, <<".", "T", "I", "F", "F">>,
      <<".", "w", "e", "b", "p">>, <<".", "W", "e", "b", "P">>,
      <<".", "g", "i", "f">>, <<".", "t", "i", "f">>, <<".", "j", "p">>,
      <<".", "j", "p", "g", "x">>, <<"j", "p", "g">>, <<".", " ", "j", "p", "g">>,
      <<".", "p", "n", "g", " ">>, <<>> }

TailSamples == { <<>>, <<"/">>, <<"/", ".">>, <<".">>, <<"/", "/">> }

EnumFileNames ==
    { stem \o ext \o tail : stem \in SeqsUpTo(StemChars, MaxStem),
                            ext \in ExtSamples, tail \in TailSamples }

\* confidences 0.0 .. 100.0 in steps of a tenth of a percent
Confidences == 0..1000

Labels == {"happy", "sad", "neutral", "angry"}

ConfSamples == {0, 500, 923}

\* mappings label -> confidence in iteration order: no label occurs twice
EnumScores ==
    { e \in UNION { [1..k -> [label : Labels, conf : ConfSamples]] : k \in 1..MaxLabels } :
        \A i, j \in 1..Len(e) : i # j => e[i].label # e[j].label }

\* what a list result holds after its first element
RestSamples == { <<>>, << ResultObj(TieScores) >>, << ResultObjNoEmotion >> }

AFile == [exists |-> TRUE, owner |-> 1, suffix |-> <<".", "j", "p", "g">>,
          data |-> "content", open |-> FALSE]

EnumDirs == [Names -> {NoFile, AFile}]

InitFn ==
    /\ pc = [r \in Reqs |-> "received"]
    /\ upload = [r \in Reqs |-> <<>>]
    /\ tmp_file = [r \in Reqs |-> None]
    /\ temp_file_path = [r \in Reqs |-> None]
    /\ response = [r \in Reqs |-> NoResponse]
    /\ raised = [r \in Reqs |-> NoExc]
    /\ backend = [r \in Reqs |-> NoBackend]
    /\ calls = [r \in Reqs |-> NoCalls]
    /\ fs = [n \in Names |-> NoFile]
    /\ fn_res = IdleRes
    /\ \/ \E f \in EnumFileNames :
            fn_arg = [IdleArg EXCEPT !.fn = "validate", !.filename = f]
       \/ \E c \in Confidences :
            fn_arg = [IdleArg EXCEPT !.fn = "level", !.confidence = c]
       \/ \E e \in EnumScores, l \in BOOLEAN :
            fn_arg = [IdleArg EXCEPT !.fn = "detect", !.emotions = e, !.is_list = l]
       \/ \E e \in EnumScores \cup {<<>>}, rest \in RestSamples :
            fn_arg = [IdleArg EXCEPT !.fn = "shapes", !.emotions = e, !.rest = rest]
       \/ \E d \in EnumDirs, p \in Names, ok1, ok2 \in BOOLEAN :
            fn_arg = [IdleArg EXCEPT !.fn = "cleanup", !.dir = d, !.path = p,
                                     !.remove_ok = <<ok1, ok2>>]

CallValidate ==
    /\ fn_arg.fn = "validate" /\ ~ fn_res.done
    /\ fn_res' = [fn_res EXCEPT !.done = TRUE,
                                !.valid = validate_image_format(fn_arg.filename)]
    /\ UNCHANGED <<fn_arg, reqVars>>

\* the level detect_emotion returns for a mapping whose maximum is confidence
CallLevel ==
    /\ fn_arg.fn = "level" /\ ~ fn_res.done
    /\ fn_res' = [fn_res EXCEPT !.done = TRUE, !.level = Level(fn_arg.confidence)]
    /\ UNCHANGED <<fn_arg, reqVars>>

\* detect_emotion on a backend that returns the mapping in either shape
CallDetect ==
    /\ fn_arg.fn = "detect" /\ ~ fn_res.done
    /\ LET res == detect_emotion(BackendReturn(fn_arg.is_list,
                                               << ResultObj(fn_arg.emotions) >>))
       IN  fn_res' = [fn_res EXCEPT !.done = TRUE, !.label = res.emotion,
                                    !.level = res.level, !.http = res.http]
    /\ UNCHANGED <<fn_arg, reqVars>>

\* detect_emotion on a backend that returns the mapping as a single result
\* object, and on one that returns a list whose first element holds it
CallShapes ==
    /\ fn_arg.fn = "shapes" /\ ~ fn_res.done
    /\ LET obj == ResultObj(fn_arg.emotions)
       IN  fn_res' = [fn_res EXCEPT
                        !.done = TRUE,
                        !.single = detect_emotion(BackendReturn(FALSE, << obj >>)),
                        !.listed = detect_emotion(
                                      BackendReturn(TRUE, << obj >> \o fn_arg.rest))]
    /\ UNCHANGED <<fn_arg, reqVars>>

\* cleanup_temp_file called twice in a row on the same path
CallCleanup ==
    /\ fn_arg.fn = "cleanup" /\ ~ fn_res.done
    /\ LET first  == cleanup_temp_file(fn_arg.dir, fn_arg.path, fn_arg.remove_ok[1])
           second == cleanup_temp_file(first.dir, fn_arg.path, fn_arg.remove_ok[2])
       IN  fn_res' = [fn_res EXCEPT !.done = TRUE, !.first = first, !.second = second]
    /\ UNCHANGED <<fn_arg, reqVars>>

NextFn == CallValidate \/ CallLevel \/ CallDetect \/ CallShapes \/ CallCleanup

SpecFn == InitFn /\ [][NextFn]_vars

(***************************************************************************)
(* Properties of a request.                                                *)
(***************************************************************************)
\* the try block has been left: the response or HTTPException is chosen
Left(r) == pc[r] \in {"finally", "done"}

Done(r) == pc[r] = "done"

\* the temporary files on disk that request r created
FilesOf(r) == { n \in Names : fs[n].exists /\ fs[n].owner = r }

\* C1: when a request completes, on whatever exit path, no temporary file
\* that it created is still on disk. The code breaks this: a file created by
\* NamedTemporaryFile stays when reading or writing the upload fails.
C1_NoFileOutlivesRequest == \A r \in Reqs : Done(r) => FilesOf(r) = {}

\* C2: a request in which save_uploaded_file returned a path calls
\* cleanup_temp_file exactly once, with that path, before it completes,
\* whatever detect_emotion did: never zero times, never twice.
C2_CleanupExactlyOnce ==
    \A r \in Reqs :
        temp_file_path[r] # None =>
            /\ calls[r].cleanup <= 1
            /\ Done(r) => calls[r].cleanup = 1 /\ calls[r].cleaned = temp_file_path[r]
            /\ ~ Done(r) => calls[r].cleanup = 0

C2_Witness ==
    \E r \in Reqs :
        /\ Done(r) /\ temp_file_path[r] # None /\ calls[r].cleanup = 1
        /\ backend[r].raises /\ response[r].status = 500

\* the uploads whose name has an unsupported extension or none
UnsupportedUploads == { PhotoGif, <<"p", "h", "o", "t", "o">> }

\* C3: a request whose filename has an unsupported or no extension ends with
\* status 400 and the unsupported-format detail; it never calls
\* save_uploaded_file, creates no temporary file and never runs the backend.
C3_UnsupportedNeverAcquires ==
    \A r \in Reqs :
        upload[r] \in UnsupportedUploads =>
            /\ Left(r)
            /\ response[r].status = 400
            /\ response[r].detail = UnsupportedDetail
            /\ calls[r].save = 0 /\ calls[r].detect = 0 /\ calls[r].cleanup = 0
            /\ tmp_file[r] = None /\ temp_file_path[r] = None
            /\ FilesOf(r) = {}
            /\ backend[r] = NoBackend

C3_Witness ==
    \E r \in Reqs : Done(r) /\ upload[r] = PhotoGif /\ response[r].status = 400

\* C4: when the backend raises, the caller sees 400 with the no-face detail
\* for a ValueError carrying the no-face text, 400 with the backend's own
\* message for any other ValueError, and 500 for any other exception; the
\* handler passes on what detect_emotion chose.
C4_BackendFailureMapping ==
    \A r \in Reqs :
        (Left(r) /\ backend[r].raises) =>
            IF backend[r].type = "ValueError"
            THEN IF Contains(backend[r].msg, NoFaceText)
                 THEN response[r].status = 400 /\ response[r].detail = NoFaceDetail
                 ELSE response[r].status = 400 /\ response[r].detail = backend[r].msg
            ELSE response[r].status = 500

C4_Witness ==
    \E r1, r2 \in Reqs :
        /\ Done(r1) /\ backend[r1] = BackendRaise("ValueError", NoFaceMsg)
        /\ response[r1].detail = NoFaceDetail
        /\ Done(r2) /\ backend[r2] = BackendRaise("ValueError", CorruptMsg)
        /\ response[r2].detail = CorruptMsg

\* the failure of request r in the error taxonomy, read off what happened:
\* where the exception came from and what class it has
FailureOf(r) ==
    IF ~ Left(r) \/ response[r].status = 200 THEN "None"
    ELSE IF calls[r].detect = 1
         THEN IF raised[r].type = "ValueError"
              THEN IF Contains(raised[r].msg, NoFaceText)
                   THEN "NoFaceDetected" ELSE "InvalidInput"
              ELSE "BackendFailure"
    ELSE IF calls[r].save = 1 THEN "StorageError"
    ELSE IF raised[r] = NoExc THEN "UnsupportedFormat"
    ELSE "UnexpectedError"

OpaqueKinds == {"StorageError", "BackendFailure", "UnexpectedError"}

GenericDetails == {SaveFailedDetail, AnalysisErrorDetail, ServerErrorDetail}

\* what the caller receives
Visible(r) == [status |-> response[r].status, emotion |-> response[r].emotion,
               level |-> response[r].level, detail |-> response[r].detail]

\* C5: requests that end in StorageError, BackendFailure or UnexpectedError
\* return a fixed generic detail: two requests with the same failure that
\* differ only in the text of the underlying exception get identical
\* responses, whose detail is one of the generic messages and status is 500.
C5_OpaqueFailuresHideMessage ==
    \A r1, r2 \in Reqs :
        (Left(r1) /\ Left(r2) /\ FailureOf(r1) \in OpaqueKinds
            /\ FailureOf(r1) = FailureOf(r2)) =>
                /\ Visible(r1) = Visible(r2)
                /\ response[r1].status = 500
                /\ response[r1].detail \in GenericDetails

C5_Witness ==
    \E r1, r2 \in Reqs :
        /\ Done(r1) /\ Done(r2)
        /\ FailureOf(r1) = "BackendFailure" /\ FailureOf(r2) = "BackendFailure"
        /\ raised[r1].msg # raised[r2].msg
        /\ Visible(r1) = Visible(r2)

(***************************************************************************)
(* Properties of the helpers.                                              *)
(***************************************************************************)
Applied(fn) == fn_arg.fn = fn /\ fn_res.done

Abs(x) == IF x >= 0 THEN x ELSE -x

\* C6: for every confidence c in [0,100] on the grid of tenths of a percent
\* the level is clamp(round(c/10), 1, 10), round taking c/10 to a nearest
\* integer: an integer in [1,10], 1 for c below 10 and 10 for c from 95.
C6_LevelIsClampedRounding ==
    Applied("level") =>
        LET c == fn_arg.confidence
        IN  /\ fn_res.level \in 1..10
            /\ c < 100 => fn_res.level = 1
            /\ c >= 950 => fn_res.level = 10
            /\ \E k \in 0..10 : /\ Abs(100 * k - c) <= 50
                                /\ fn_res.level = Max(1, Min(k, 10))

C6_Witness == Applied("level") /\ fn_arg.confidence = 950 /\ fn_res.level = 10

\* C7: for a non-empty mapping the emotion of the 200 response is a label of
\* the mapping with the maximum confidence, and among several such labels
\* the first in the mapping's iteration order.
C7_DominantIsFirstMaximum ==
    Applied("detect") =>
        LET e == fn_arg.emotions
        IN  /\ fn_res.http = NoResponse
            /\ \E i \in 1..Len(e) :
                 /\ e[i].label = fn_res.label
                 /\ \A j \in 1..Len(e) : e[j].conf <= e[i].conf
                 /\ \A j \in 1..(i - 1) : e[j].conf < e[i].conf

C7_Witness ==
    /\ Applied("detect")
    /\ fn_arg.emotions = << Score("neutral", 500), Score("sad", 500) >>
    /\ fn_res.label = "neutral"

\* the filename's last component ends, in any case, with the extension ext
\* and has at least one character in front of it
EndsWithExt(filename, ext) ==
    LET name == PathName(filename)
    IN  /\ Len(name) > Len(ext)
        /\ \A k \in 1..Len(ext) :
              LowerChar(name[Len(name) - Len(ext) + k]) = ext[k]

\* C8: validate_image_format is true exactly for the filenames whose suffix,
\* in any case, is .jpg, .jpeg, .png, .bmp, .tiff or .webp, false for every
\* other filename (no suffix included), and leaves the service's state alone.
C8_ValidateAcceptsExactlySupported ==
    Applied("validate") =>
        /\ fn_res.valid <=> \E ext \in SUPPORTED_FORMATS : EndsWithExt(fn_arg.filename, ext)
        /\ fs = [n \in Names |-> NoFile]
        /\ \A r \in Reqs : pc[r] = "received" /\ calls[r] = NoCalls

C8_Witness ==
    /\ Applied("validate")
    /\ fn_arg.filename = <<"a", ".", "J", "P", "G">>
    /\ fn_res.valid

\* C9 as stated: cleanup_temp_file never raises, removes an existing file,
\* and a second call, or a call on a path that does not exist, changes
\* nothing. It fails when os.remove raises: the file stays.
C9_CleanupRemovesAndIsIdempotent ==
    Applied("cleanup") =>
        LET d == fn_arg.dir
            p == fn_arg.path
        IN  /\ fn_res.first.propagated = NoExc
            /\ fn_res.second.propagated = NoExc
            /\ d[p].exists => ~ fn_res.first.dir[p].exists
            /\ ~ d[p].exists => fn_res.first.dir = d
            /\ fn_res.second.dir = fn_res.first.dir

\* C9 amended: cleanup_temp_file never raises; on an existing file it
\* removes that file and no other unless os.remove raises, and then the
\* directory is unchanged; on a path that does not exist (never created, or
\* removed by the first call) it changes nothing.
C9_CleanupBestEffort ==
    Applied("cleanup") =>
        LET d == fn_arg.dir
            p == fn_arg.path
            first == fn_res.first
            second == fn_res.second
        IN  /\ first.propagated = NoExc
            /\ second.propagated = NoExc
            /\ (d[p].exists /\ fn_arg.remove_ok[1]) =>
                  first.dir = [d EXCEPT ![p] = NoFile]
            /\ (d[p].exists /\ ~ fn_arg.remove_ok[1]) => first.dir = d
            /\ ~ d[p].exists => first.dir = d
            /\ ~ first.dir[p].exists => second.dir = first.dir

C9_Witness ==
    /\ Applied("cleanup")
    /\ fn_arg.dir[fn_arg.path].exists /\ fn_arg.remove_ok[1]
    /\ ~ fn_res.first.dir[fn_arg.path].exists
    /\ fn_res.second.dir = fn_res.first.dir

(***************************************************************************)
(* Properties of concurrent requests.                                      *)
(***************************************************************************)
\* request r is in flight and holds a temporary path
Holds(r) == /\ pc[r] \in {"created", "stored", "analyzing", "finally"}
            /\ tmp_file[r] # None

\* C10: the temporary paths of requests in flight at the same time are
\* pairwise distinct; the file a request holds is its own until its cleanup;
\* no cleanup removes and no analysis reads another request's file.
C10_RequestsDoNotInterfere ==
    /\ \A r1, r2 \in Reqs :
          (r1 # r2 /\ Holds(r1) /\ Holds(r2)) => tmp_file[r1] # tmp_file[r2]
    /\ \A r \in Reqs :
          /\ Holds(r) => fs[tmp_file[r]].exists /\ fs[tmp_file[r]].owner = r
          /\ calls[r].read \in {0, r}
          /\ calls[r].removed \in {0, r}

C10_Witness ==
    \E r1, r2 \in Reqs :
        /\ r1 # r2
        /\ pc[r1] = "stored" /\ pc[r2] = "finally"
        /\ calls[r2].detect = 1
        /\ tmp_file[r1] # tmp_file[r2]
        /\ fs[tmp_file[r1]].owner = r1 /\ fs[tmp_file[r2]].owner = r2

(***************************************************************************)
(* Further properties of a request.                                        *)
(***************************************************************************)
\* requests r1 and r2 were given the same upload and met the same outcomes
\* of storing and of the backend
SameInputs(r1, r2) ==
    /\ upload[r1] = upload[r2]
    /\ backend[r1] = backend[r2]
    /\ calls[r1].save = calls[r2].save /\ calls[r1].detect = calls[r2].detect
    /\ (temp_file_path[r1] = None) <=> (temp_file_path[r2] = None)
    /\ raised[r1] = raised[r2]

\* the removal in request r's cleanup_temp_file call failed: the file stays
RemovalFailed(r) ==
    /\ Done(r) /\ calls[r].cleanup = 1 /\ calls[r].removed = 0
    /\ fs[temp_file_path[r]].exists

\* C11: a failure to remove the temporary file never changes what the caller
\* receives: two completed requests with the same inputs get the same
\* response whether or not the removal failed, and no completed request ends
\* with the removal's exception.
C11_RemovalFailureIsInvisible ==
    /\ \A r1, r2 \in Reqs :
          (Done(r1) /\ Done(r2) /\ SameInputs(r1, r2)) => Visible(r1) = Visible(r2)
    /\ \A r \in Reqs :
          Done(r) => response[r].kind # "Escaped" /\ response[r].status # 0

C11_Witness ==
    \E r1, r2 \in Reqs :
        /\ Done(r1) /\ Done(r2) /\ SameInputs(r1, r2)
        /\ RemovalFailed(r1)
        /\ calls[r2].removed = r2
        /\ response[r1].status = 200 /\ Visible(r1) = Visible(r2)

\* C13: within a request the backend is invoked only after the upload has
\* been validated and its temporary file written and closed, the file is on
\* disk, complete, for the whole of the backend call, and cleanup runs only
\* after the backend call has returned or raised.
C13_StepsInOrder ==
    \A r \in Reqs :
        /\ calls[r].save >= 1 => upload[r] = PhotoJPG
        /\ calls[r].detect >= 1 => calls[r].save = 1 /\ temp_file_path[r] # None
        /\ pc[r] \in {"stored", "analyzing"} =>
              /\ fs[temp_file_path[r]].exists
              /\ fs[temp_file_path[r]].owner = r
              /\ fs[temp_file_path[r]].data = "content"
              /\ ~ fs[temp_file_path[r]].open
              /\ calls[r].cleanup = 0
              /\ response[r] = NoResponse
        /\ response[r].status = 200 => calls[r].detect = 1 /\ backend[r] # NoBackend
        /\ calls[r].cleanup >= 1 =>
              Done(r) /\ calls[r].detect = 1 /\ backend[r] # NoBackend

C13_Witness ==
    \E r1, r2 \in Reqs :
        /\ pc[r1] = "analyzing" /\ fs[temp_file_path[r1]].exists
        /\ Done(r2) /\ calls[r2].removed = r2

\* C14: nothing is retried: a request stores its upload at most once and
\* invokes the backend at most once, and once a step has failed (or the
\* response is built) the request only goes on to its finally block: a failed
\* validation is followed by no save and no backend call, a failed save by
\* no backend call.
C14_FailuresAreTerminal ==
    \A r \in Reqs :
        /\ calls[r].save <= 1 /\ calls[r].detect <= 1 /\ calls[r].cleanup <= 1
        /\ response[r] # NoResponse => Left(r)
        /\ response[r].kind \in {"UnsupportedFormat", "UnexpectedError"} =>
              calls[r].save = 0 /\ calls[r].detect = 0 /\ tmp_file[r] = None
        /\ response[r].kind = "StorageError" =>
              calls[r].save = 1 /\ calls[r].detect = 0 /\ backend[r] = NoBackend
        /\ response[r].kind \in {"NoFaceDetected", "InvalidInput", "BackendFailure"} =>
              calls[r].save = 1 /\ calls[r].detect = 1

C14_Witness ==
    \E r1, r2 \in Reqs :
        /\ Done(r1) /\ response[r1].kind = "StorageError" /\ calls[r1].detect = 0
        /\ Done(r2) /\ response[r2].kind = "BackendFailure" /\ calls[r2].detect = 1

(***************************************************************************)
(* Further properties of the helpers.                                      *)
(***************************************************************************)
\* C12: for every mapping the outcome of detect_emotion, and so the response,
\* is the same whether the backend returns a single result object holding
\* the mapping or a list whose first element holds it.
C12_ShapesAgree == Applied("shapes") => fn_res.single = fn_res.listed

C12_Witness ==
    /\ Applied("shapes")
    /\ fn_arg.emotions = << Score("happy", 923) >>
    /\ fn_arg.rest = << ResultObj(TieScores) >>
    /\ fn_res.single.emotion = "happy" /\ fn_res.listed.emotion = "happy"
    /\ fn_res.listed.level = 9

(***************************************************************************)
(* Releases, escaping exceptions, malformed results and ties of rounding.  *)
(***************************************************************************)
AfterAcquireKinds == {"NoFaceDetected", "InvalidInput", "BackendFailure"}

C16_ResponseOrHttpError ==
    \A r \in Reqs :
        Done(r) =>
            \/ /\ response[r].status = 200 /\ response[r].kind = "Responded"
               /\ response[r].emotion # "" /\ response[r].level \in 1..10
            \/ /\ response[r].status \in {400, 500}
               /\ response[r].kind \in AfterAcquireKinds \cup
                     {"UnsupportedFormat", "StorageError", "UnexpectedError"}

C16_Witness ==
    \E r1, r2 \in Reqs :
        /\ Done(r1) /\ upload[r1] = NoneName /\ response[r1].status = 500
        /\ RemovalFailed(r2) /\ response[r2].status = 400

\* the backend returned, but not a result that holds a non-empty mapping
Malformed(out) ==
    /\ ~ out.raises /\ out.type = "None"
    /\ \/ out.items = <<>>
       \/ ~ out.items[1].has_emotion
       \/ out.items[1].emotion = <<>>

\* C17: a malformed backend result (empty list, no 'emotion' entry, empty
\* mapping) ends the request with status 500 and the generic message, and the
\* temporary file is released. The code breaks this for an empty mapping:
\* max() raises ValueError, which detect_emotion reports as 400 with the
\* exception's message.
C17_MalformedResultIsServerError ==
    \A r \in Reqs :
        (Left(r) /\ Malformed(backend[r])) =>
            /\ response[r].status = 500
            /\ response[r].detail = AnalysisErrorDetail
            /\ Done(r) => calls[r].cleanup = 1

\* the even neighbour of k + 1/2
EvenNeighbour(k) == IF k % 2 = 0 THEN k ELSE k + 1

\* the confidence lies exactly halfway between two levels: c = 10k + 5
Halfway(c) == c % 100 = 50 /\ c \div 100 \in 0..9

\* C18 as stated: for c = 10k + 5 the level is k when k is even and k + 1
\* when k is odd, and the level is non-decreasing in c. It fails for k = 0:
\* the quotient 0.5 rounds to 0 and the clamp makes the level 1.
C18_HalfwayToEven ==
    Applied("level") =>
        LET c == fn_arg.confidence
        IN  /\ Halfway(c) => fn_res.level = EvenNeighbour(c \div 100)
            /\ c > 0 => fn_res.level >= Level(c - 1)

\* C18 amended: for c = 10k + 5 the quotient is rounded to its even
\* neighbour before clamping, so the level is k when k is even and at least
\* 2, k + 1 when k is odd, and 1 for k = 0 (c = 5.0), where the clamp lifts
\* the rounded 0; the level is non-decreasing in c.
C18_HalfwayToEvenThenClamp ==
    Applied("level") =>
        LET c == fn_arg.confidence
        IN  /\ Halfway(c) => fn_res.level = Max(1, EvenNeighbour(c \div 100))
            /\ c > 0 => fn_res.level >= Level(c - 1)

C18_Witness == Applied("level") /\ fn_arg.confidence = 250 /\ fn_res.level = 2

====
